---- MODULE Spec2Model ----
(***************************************************************************)
(* A model of the Supabase Memory MCP server: the tool handlers of         *)
(* src/src/index.ts running against the Postgres objects of src/schema.sql *)
(* (tables memories, memory_relations, structured_memories and             *)
(* short_term_memory, functions match_memories and get_related_memories)   *)
(* and the add_missing_columns migration; beside them the lazily loaded    *)
(* model of src/src/embedding.ts and getConfig of src/src/config.ts.       *)
(*                                                                         *)
(* One action is one SQL statement (one PostgREST request or one rpc) of a *)
(* tool call, with the constraints, cascades and triggers it fires and the *)
(* reply built from it.  Every handler issues a single statement, except   *)
(* get_short_term_memory, which deletes an expired row with a second one   *)
(* and is two actions.  The reply is kept in `res` until the caller has    *)
(* read it (action Return); the next statement runs after that.  A reply   *)
(* does not influence the database, so the database states reached are    *)
(* those of any interleaving of the statements of concurrent calls.        *)
(*                                                                         *)
(* Numbers: a similarity is held in hundredths (0.5 is 50), an embedding   *)
(* is a two-dimensional integer vector of length 100 (the provider         *)
(* normalises its output), a UUID is a fresh natural number.               *)
(***************************************************************************)
EXTENDS Integers, Sequences, FiniteSets, TLC

VARIABLES
    memories,               \* rows of table memories
    memory_relations,       \* rows of table memory_relations
    memories_columns,       \* the columns table memories has
    match_memories_def,     \* the definition of match_memories in force
    nextId,                 \* next value of gen_random_uuid() for memories
    nextRelId,              \* next value of gen_random_uuid() for relations
    now,                    \* NOW() of the database and of the server
    res,                    \* the reply to the last tool call
    structured_memories,    \* rows of table structured_memories
    short_term_memory,      \* rows of table short_term_memory
    in_flight,              \* get_short_term_memory calls about to delete
    last_set,               \* history: the last set_short_term_memory per key
    outage,                 \* what is failing: "store", "provider" or "none"
    generateEmbedding,      \* embedding.ts: the loaded model, or none
    pipeline_calls,         \* how many times pipeline() has been called
    callers,                \* the getEmbedding calls and where each stands
    env,                    \* process.env
    config_file,            \* config.json in the home directory
    config,                 \* what getConfig() returned at startup
    memories_indexes,       \* the indexes on memories.type and .importance
    migration_result        \* how the last run of the migration ended

\* the tables and counters of the episodic store and the relation graph
memory_vars ==
    <<memories, memory_relations, memories_columns, match_memories_def,
      nextId, nextRelId, memories_indexes, migration_result>>

\* what only the migration changes
schema_vars == <<memories_indexes, migration_result>>

\* the structured and the short-term store
key_value_vars == <<structured_memories, short_term_memory, in_flight, last_set>>

\* the state of the server process outside the database
process_vars ==
    <<generateEmbedding, pipeline_calls, callers, env, config_file, config>>

vars == <<memories, memory_relations, memories_columns, match_memories_def,
          nextId, nextRelId, now, res, structured_memories,
          short_term_memory, in_flight, last_set, outage,
          generateEmbedding, pipeline_calls, callers, env, config_file,
          config, memories_indexes, migration_result>>

----------------------------------------------------------------------------
(* Bounds of the model *)

\* how many memory ids gen_random_uuid() hands out
MaxIds == 3

\* how many relation ids gen_random_uuid() hands out
MaxRelIds == 2

\* how far the clock advances
MaxTime == 2

\* how many get_short_term_memory calls on one key can be between their
\* SELECT and their DELETE at the same time
MaxInFlight == 2

----------------------------------------------------------------------------
(* Values *)

\* SQL NULL / a JSON null sent to the database
NULL == "<null>"

ProjectIds == {"p1", "p2"}

\* the ids a caller can name: an id names a stored memory, a deleted one, or
\* (not handed out yet) none
MemoryIds == 1 .. MaxIds

\* texts handed to the embedding provider
Contents == {"near", "far"}
Queries == {"q"}

\* the embedding provider: a deterministic text -> vector function
getEmbedding(text) ==
    CASE text = "q"    -> <<100, 0>>
      [] text = "near" -> <<80, 60>>
      [] text = "far"  -> <<60, 80>>
      [] OTHER         -> <<0, 100>>

\* A tool call's arguments are a record; an optional parameter the caller
\* leaves out is a field the record does not have.
Optional(name, values) == {<<>>} \cup { name :> v : v \in values }

Has(a, name) == name \in DOMAIN a

\* arguments of store_memory used by the model; the last two have an
\* importance outside 1 .. 5
StoreInputs ==
    { [project_id |-> "p1", category |-> "decision", content |-> "far",
       importance |-> 5],
      [project_id |-> "p1", category |-> "decision", content |-> "near"],
      [project_id |-> "p1", category |-> "snippet", content |-> "near",
       type |-> "insight", importance |-> 1, metadata |-> "{tag}"],
      [project_id |-> "p2", category |-> "decision", content |-> "near",
       importance |-> 1],
      [project_id |-> "p1", category |-> "decision", content |-> "near",
       importance |-> 0],
      [project_id |-> "p2", category |-> "decision", content |-> "far",
       importance |-> 6] }

\* arguments of search_memories used by the model; the last two kinds have
\* a limit above 50 and a threshold above 1
SearchInputs ==
    { a @@ c @@ l @@ t :
        a \in [query : Queries, project_id : ProjectIds],
        c \in Optional("category", {"", "decision"}),
        l \in Optional("limit", {1}),
        t \in Optional("similarity_threshold", {70}) }
    \cup [query : Queries, project_id : {"p1"}, limit : {0, 51}]
    \cup [query : Queries, project_id : {"p1"}, similarity_threshold : {101}]

\* arguments of list_memories used by the model; the last two kinds have
\* an empty category and a limit above 100
ListInputs ==
    { a @@ c @@ l @@ o :
        a \in [project_id : ProjectIds],
        c \in Optional("category", {"decision"}),
        l \in Optional("limit", {1}),
        o \in Optional("offset", {1}) }
    \cup [project_id : ProjectIds, category : {""}]
    \cup [project_id : ProjectIds, limit : {101}]

----------------------------------------------------------------------------
(* Helpers *)

\* zod's .optional().default(d) on parameter `name`
Default(a, name, d) == IF Has(a, name) THEN a[name] ELSE d

\* JavaScript's truthiness of an optional string parameter: undefined and
\* the empty string are falsy
Truthy(a, name) == Has(a, name) /\ a[name] # ""

\* JavaScript's  a.name || null
OrNull(a, name) == IF Truthy(a, name) THEN a[name] ELSE NULL

RECURSIVE Arrangements(_)
Arrangements(S) ==
    IF S = {} THEN {<<>>}
    ELSE UNION { { <<x>> \o s : s \in Arrangements(S \ {x}) } : x \in S }

\* the orders in which a query with ORDER BY may return the rows S, where
\* <<a, b>> \in precedes says that the sort key puts a before b: every
\* arrangement in which no row comes after a row it precedes (rows with
\* equal keys come in any order)
OrderBy(S, precedes) ==
    { s \in Arrangements(S) :
        \A i, j \in 1 .. Len(s) : i < j => <<s[j], s[i]>> \notin precedes }

\* LIMIT n
Limit(s, n) == SubSeq(s, 1, IF n < Len(s) THEN n ELSE Len(s))

\* PostgREST .range(from, to): rows from .. to, counted from 0
Range(s, from, to) == SubSeq(s, from + 1, IF to + 1 < Len(s) THEN to + 1 ELSE Len(s))

Ids(rows) == { r.id : r \in rows }

----------------------------------------------------------------------------
(* The database objects that schema.sql defines more than once.  The file  *)
(* is three schema scripts one after the other; the wizard's runMigrations *)
(* (setup.ts) sends the whole file.  CREATE TABLE IF NOT EXISTS keeps a    *)
(* table that exists, CREATE OR REPLACE FUNCTION replaces the function.    *)
(* Only the statements on table memories, on its indexes on type and       *)
(* importance and on function match_memories are modelled, each taken to   *)
(* run as written (a CREATE INDEX on a column the table lacks creates      *)
(* nothing); the other objects are                                         *)
(* defined once (the first script's match_memories has the ORDER BY of the *)
(* last, so the function in force is the same if Postgres keeps the first  *)
(* definition where the second changes the result columns).                *)

BaseColumns ==
    {"id", "project_id", "category", "content", "embedding", "metadata",
     "created_at", "updated_at"}

EnhancedColumns == BaseColumns \cup {"type", "importance"}

\* the statements of schema.sql on table memories and function
\* match_memories, in file order
SchemaSql ==
    << [stmt |-> "CREATE TABLE IF NOT EXISTS memories",
        columns |-> BaseColumns, order_by |-> NULL],
       [stmt |-> "CREATE OR REPLACE FUNCTION match_memories",
        columns |-> {}, order_by |-> "distance"],
       [stmt |-> "CREATE TABLE IF NOT EXISTS memories",
        columns |-> EnhancedColumns, order_by |-> NULL],
       [stmt |-> "CREATE INDEX IF NOT EXISTS", name |-> "idx_memories_type",
        column |-> "type"],
       [stmt |-> "CREATE INDEX IF NOT EXISTS",
        name |-> "idx_memories_importance", column |-> "importance"],
       [stmt |-> "CREATE OR REPLACE FUNCTION match_memories",
        columns |-> {}, order_by |-> "importance"],
       [stmt |-> "CREATE TABLE IF NOT EXISTS memories",
        columns |-> BaseColumns, order_by |-> NULL],
       [stmt |-> "CREATE OR REPLACE FUNCTION match_memories",
        columns |-> {}, order_by |-> "distance"] >>

\* a database without table memories (no columns) and without match_memories
EmptyDatabase ==
    [memories_columns |-> {}, match_memories |-> NULL, memories_indexes |-> {}]

\* one statement of SchemaSql applied to database db
ExecuteStatement(db, s) ==
    IF s.stmt = "CREATE TABLE IF NOT EXISTS memories"
    THEN IF db.memories_columns = {}
         THEN [db EXCEPT !.memories_columns = s.columns]
         ELSE db
    ELSE IF s.stmt = "CREATE INDEX IF NOT EXISTS"
    THEN IF s.column \in db.memories_columns
         THEN [db EXCEPT !.memories_indexes = @ \cup {s.name}]
         ELSE db
    ELSE [db EXCEPT !.match_memories = s.order_by]

\* the first n statements of SchemaSql applied to an empty database
RECURSIVE ApplySchema(_)
ApplySchema(n) ==
    IF n = 0 THEN EmptyDatabase
    ELSE ExecuteStatement(ApplySchema(n - 1), SchemaSql[n])

\* migrations/add_missing_columns.sql: its four DO blocks, in file order
MigrationSql ==
    << [object |-> "column", name |-> "type"],
       [object |-> "column", name |-> "importance"],
       [object |-> "index", name |-> "idx_memories_type", column |-> "type"],
       [object |-> "index", name |-> "idx_memories_importance",
        column |-> "importance"] >>

\* AlreadyExists that finds nothing
NeverExists(db, b) == FALSE

\* the test of a DO block: the SELECT from information_schema.columns or
\* from pg_indexes finds the object
AlreadyExists(db, b) ==
    IF b.object = "column" THEN b.name \in db.memories_columns
    ELSE b.name \in db.memories_indexes

\* ALTER TABLE memories ADD COLUMN / CREATE INDEX ... ON memories(column):
\* an error when the object exists or the indexed column does not
CreateObject(db, b) ==
    IF b.object = "column"
    THEN IF b.name \in db.memories_columns THEN [db EXCEPT !.failed = TRUE]
         ELSE [db EXCEPT !.memories_columns = @ \cup {b.name}]
    ELSE IF b.name \in db.memories_indexes \/ b.column \notin db.memories_columns
         THEN [db EXCEPT !.failed = TRUE]
         ELSE [db EXCEPT !.memories_indexes = @ \cup {b.name}]

\* one DO block: IF NOT EXISTS (...) THEN create ELSE a notice; the script
\* stops at an error
ExecuteBlock(db, b) ==
    IF db.failed \/ AlreadyExists(db, b) THEN db ELSE CreateObject(db, b)

\* the first n DO blocks of the migration run on database db
RECURSIVE ApplyMigration(_, _)
ApplyMigration(n, db) ==
    IF n = 0 THEN db
    ELSE ExecuteBlock(ApplyMigration(n - 1, db), MigrationSql[n])

----------------------------------------------------------------------------
(* match_memories (schema.sql) *)

\* 1 - (m.embedding <=> query_embedding), in hundredths: the cosine of two
\* vectors of length 100
Similarity(embedding, query_embedding) ==
    (embedding[1] * query_embedding[1] + embedding[2] * query_embedding[2]) \div 100

\* m.embedding <=> query_embedding, in hundredths
CosineDistance(embedding, query_embedding) ==
    100 - Similarity(embedding, query_embedding)

\* the WHERE clause of match_memories
MatchWhere(m, query_embedding, match_project_id, match_category, match_threshold) ==
    /\ m.project_id = match_project_id
    /\ (match_category = NULL \/ m.category = match_category)
    /\ Similarity(m.embedding, query_embedding) >= match_threshold

\* the ORDER BY clause of match_memories: whether row a must come before b
MatchOrder(order_by, a, b, query_embedding) ==
    IF order_by = "importance"
    THEN \/ a.importance > b.importance
         \/ /\ a.importance = b.importance
            /\ CosineDistance(a.embedding, query_embedding)
                 < CosineDistance(b.embedding, query_embedding)
    ELSE CosineDistance(a.embedding, query_embedding)
           < CosineDistance(b.embedding, query_embedding)

\* the RETURNS TABLE row of match_memories for memory m
MatchRow(order_by, m, query_embedding) ==
    IF order_by = "importance"
    THEN [id |-> m.id, project_id |-> m.project_id, category |-> m.category,
          content |-> m.content, type |-> m.type, importance |-> m.importance,
          created_at |-> m.created_at,
          similarity |-> Similarity(m.embedding, query_embedding)]
    ELSE [id |-> m.id, project_id |-> m.project_id, category |-> m.category,
          content |-> m.content, created_at |-> m.created_at,
          similarity |-> Similarity(m.embedding, query_embedding)]

\* the results match_memories may return: one per order the ORDER BY allows
match_memories(order_by, query_embedding, match_project_id, match_category, match_threshold, match_count) ==
    LET candidates ==
            { m \in memories :
                MatchWhere(m, query_embedding, match_project_id, match_category,
                           match_threshold) }
        precedes ==
            { x \in candidates \X candidates :
                MatchOrder(order_by, x[1], x[2], query_embedding) }
    IN { [i \in 1 .. Len(Limit(s, match_count)) |->
            MatchRow(order_by, s[i], query_embedding)] :
         s \in OrderBy(candidates, precedes) }

\* whether a call of match_memories fails: no such function, or its body
\* names a column that table memories does not have
MatchFails(order_by) ==
    \/ order_by = NULL
    \/ order_by = "importance" /\ ~ ({"type", "importance"} \subseteq memories_columns)

----------------------------------------------------------------------------
(* Table memories: the statements the handlers send *)

\* the columns store_memory's insert names (insertData)
InsertColumns ==
    {"project_id", "category", "content", "embedding", "type", "importance",
     "metadata"}

\* the number of elements of a vector the provider returns
EMBEDDING_DIMENSION == 384

\* embedding vector(384): the number of elements the column takes
VectorDimension == 384

\* whether the column refuses the embeddings the provider returns
EmbeddingRejected == EMBEDDING_DIMENSION # VectorDimension

\* ImportanceOutOfRange with .min(1) only
ImportanceBelowRange(importance) == importance < 1

\* z.number().min(1).max(5) on importance: whether the call is refused
ImportanceOutOfRange(importance) == importance < 1 \/ importance > 5

\* InsertData without zod's defaults and without  metadata || {}
InsertDataAsGiven(a) ==
    [project_id |-> a.project_id, category |-> a.category,
     content |-> a.content, embedding |-> getEmbedding(a.content),
     type |-> Default(a, "type", NULL),
     importance |-> Default(a, "importance", 0),
     metadata |-> Default(a, "metadata", NULL)]

\* insertData: the arguments after zod's defaults, the embedding of the
\* content, and  metadata || {}
InsertData(a) ==
    [project_id |-> a.project_id, category |-> a.category,
     content |-> a.content, embedding |-> getEmbedding(a.content),
     type |-> Default(a, "type", "episodic"),
     importance |-> Default(a, "importance", 1),
     metadata |-> Default(a, "metadata", "{}")]

\* the row an INSERT of insertData `data` adds at time t: id DEFAULT
\* gen_random_uuid(), created_at and updated_at DEFAULT NOW()
InsertedRow(data, id, t) ==
    data @@ [id |-> id, created_at |-> t, updated_at |-> t]

\* the columns list_memories selects
ListColumns == {"id", "category", "content", "created_at", "type", "importance"}

\* DeleteWhere without the project filter
DeleteWhereIdOnly(m, memory_id, project_id) ==
    m.id = memory_id

\* DELETE FROM memories WHERE id = memory_id AND project_id = project_id:
\* whether row m is deleted
DeleteWhere(m, memory_id, project_id) ==
    m.id = memory_id /\ m.project_id = project_id

\* OnDeleteCascade with the cascade declared on source_id only
CascadeSourceOnly(relations, gone) ==
    { r \in relations : r.source_id \notin gone }

\* OnDeleteCascade with the cascade declared on target_id only
CascadeTargetOnly(relations, gone) ==
    { r \in relations : r.target_id \notin gone }

\* OnDeleteCascade that empties the table when a memory is deleted
CascadeEveryRelation(relations, gone) ==
    IF gone = {} THEN relations ELSE {}

\* REFERENCES memories(id) ON DELETE CASCADE on source_id and target_id:
\* the relations left when the memories with ids `gone` are deleted
OnDeleteCascade(relations, gone) ==
    { r \in relations : r.source_id \notin gone /\ r.target_id \notin gone }

\* list_memories' filter: .eq("project_id", ..), and .eq("category", ..)
\* when category is truthy
ListWhere(m, a) ==
    /\ m.project_id = a.project_id
    /\ (Truthy(a, "category") => m.category = a.category)

\* the row list_memories returns for memory m
ListRow(m) ==
    [id |-> m.id, category |-> m.category, content |-> m.content,
     created_at |-> m.created_at, type |-> m.type, importance |-> m.importance]

\* the data list_memories' query may return for arguments a: rows
\* offset .. offset + limit - 1 of the selected memories in one of the
\* orders that ORDER BY created_at DESC allows
ListResults(a) ==
    LET limit == Default(a, "limit", 20)
        offset == Default(a, "offset", 0)
        selected == { m \in memories : ListWhere(m, a) }
        newer == { x \in selected \X selected : x[1].created_at > x[2].created_at }
    IN { [i \in 1 .. Len(Range(s, offset, offset + limit - 1))
            |-> ListRow(Range(s, offset, offset + limit - 1)[i])] :
         s \in OrderBy(selected, newer) }

\* StatsWhere without the project filter
StatsWhereAny(m, project_id) == TRUE

\* get_project_stats' filter
StatsWhere(m, project_id) == m.project_id = project_id

----------------------------------------------------------------------------
(* Table memory_relations and function get_related_memories (schema.sql) *)

RelationTypes == {"caused_by"}

\* ForeignKeyViolation with the reference declared on source_id only
ForeignKeySourceOnly(source_id, target_id) ==
    source_id \notin Ids(memories)

\* source_id / target_id REFERENCES memories(id): whether an insert of the
\* edge is refused because an endpoint is no row of memories
ForeignKeyViolation(source_id, target_id) ==
    source_id \notin Ids(memories) \/ target_id \notin Ids(memories)

\* UniqueViolation without the UNIQUE constraint
NoUniqueConstraint(source_id, target_id, relation_type) == FALSE

\* UNIQUE(source_id, target_id, relation_type): whether an insert of the
\* edge is refused because the triple is stored already
UniqueViolation(source_id, target_id, relation_type) ==
    \E r \in memory_relations :
        /\ r.source_id = source_id
        /\ r.target_id = target_id
        /\ r.relation_type = relation_type

\* the first SELECT of get_related_memories: the relations r with
\* r.source_id = start_id, each joined with the memory m = r.target_id
OutgoingJoin(start_id) ==
    { <<r, m>> \in memory_relations \X memories :
        r.target_id = m.id /\ r.source_id = start_id }

\* IncomingJoin joined on the wrong column (r.target_id = m.id)
IncomingJoinOnTarget(start_id) ==
    { <<r, m>> \in memory_relations \X memories :
        r.target_id = m.id /\ r.target_id = start_id }

\* the second SELECT: relations with r.target_id = start_id, each joined
\* with the memory m = r.source_id
IncomingJoin(start_id) ==
    { <<r, m>> \in memory_relations \X memories :
        r.source_id = m.id /\ r.target_id = start_id }

\* the RETURNS TABLE row of get_related_memories
RelatedRow(r, direction, m) ==
    [relation_type |-> r.relation_type, direction |-> direction,
     memory_id |-> m.id, category |-> m.category, content |-> m.content,
     type |-> m.type]

\* the result of get_related_memories(start_id): the rows of both SELECTs
\* under UNION ALL, as a bag (row |-> how many times it is returned)
RelatedMemories(start_id) ==
    LET out == OutgoingJoin(start_id)
        inc == IncomingJoin(start_id)
        rows == { RelatedRow(x[1], "outgoing", x[2]) : x \in out }
                  \cup { RelatedRow(x[1], "incoming", x[2]) : x \in inc }
    IN [ row \in rows |->
           Cardinality({ x \in out : RelatedRow(x[1], "outgoing", x[2]) = row })
           + Cardinality({ x \in inc : RelatedRow(x[1], "incoming", x[2]) = row }) ]

\* whether a call of get_related_memories fails: its body selects m.type
RelatedFails == "type" \notin memories_columns

----------------------------------------------------------------------------
(* Table structured_memories (schema.sql) and the statements on it *)

StructuredCategories == {"project_conf"}
StructuredKeys == {"theme"}
StructuredValues == {"v1", "v2"}
Descriptions == {"d1"}

\* arguments of set_structured_memory used by the model
SetStructuredInputs ==
    { a @@ d :
        a \in [project_id : ProjectIds, category : StructuredCategories,
               key : StructuredKeys, value : StructuredValues],
        d \in Optional("description", Descriptions) }

\* arguments of get_structured_memory used by the model
GetStructuredInputs ==
    [project_id : ProjectIds, category : StructuredCategories,
     key : StructuredKeys]

\* .match({ project_id, category, key }) and the conflict target of the
\* upsert: whether row r is the entry that the arguments a name
StructuredMatch(r, a) ==
    /\ r.project_id = a.project_id
    /\ r.category = a.category
    /\ r.key = a.key

\* UNIQUE(project_id, category, key) with onConflict
\* 'project_id,category,key': the rows an upsert of a updates
StructuredConflict(rows, a) == { r \in rows : StructuredMatch(r, a) }

\* update_updated_at_column written to leave the row as it is
update_updated_at_column_off(row, t) == row

\* trigger update_structured_memories_updated_at: BEFORE UPDATE the function
\* update_updated_at_column sets NEW.updated_at = NOW()
update_updated_at_column(row, t) == [row EXCEPT !.updated_at = t]

\* ON CONFLICT DO UPDATE SET of the upsert: the columns of the request body
\* are set.  The body is JSON, in which a property that is undefined does
\* not appear, so `description` is set only when the caller gave one.
StructuredUpdate(r, a) ==
    [r EXCEPT !.value = a.value,
              !.description = IF Has(a, "description") THEN a.description ELSE @]

\* the row an upsert of a inserts at time t: a column that the body does not
\* name takes its default (description NULL, created_at and updated_at NOW())
StructuredInsert(a, t) ==
    [project_id |-> a.project_id, category |-> a.category, key |-> a.key,
     value |-> a.value,
     description |-> IF Has(a, "description") THEN a.description ELSE NULL,
     created_at |-> t, updated_at |-> t]

\* supabase.from("structured_memories").upsert(a, { onConflict }) at time t
StructuredUpsert(rows, a, t) ==
    IF StructuredConflict(rows, a) = {}
    THEN rows \cup {StructuredInsert(a, t)}
    ELSE (rows \ StructuredConflict(rows, a))
           \cup { update_updated_at_column(StructuredUpdate(r, a), t) :
                    r \in StructuredConflict(rows, a) }

----------------------------------------------------------------------------
(* Table short_term_memory (schema.sql) and the statements on it.  A row   *)
(* holds session_id, key, value and, when it is not NULL, expires_at.      *)
(* Times are whole seconds; the server's clock and the database's are one. *)

SessionIds == {"s1", "s2"}
ShortTermKeys == {"k"}
ShortTermValues == {"v1", "v2"}
Ttls == {0, 1}

\* arguments of set_short_term_memory used by the model
SetShortTermInputs ==
    { a @@ t :
        a \in [session_id : SessionIds, key : ShortTermKeys,
               value : ShortTermValues],
        t \in Optional("ttl_seconds", Ttls) }

\* arguments of get_short_term_memory used by the model
GetShortTermInputs == [session_id : SessionIds, key : ShortTermKeys]

\* the entry a call names
EntryOf(a) == [session_id |-> a.session_id, key |-> a.key]

\* ShortTermMatch on the key alone, whatever the session
ShortTermMatchKey(r, a) == r.key = a.key

\* .match({ session_id, key }) and the conflict target of the upsert
ShortTermMatch(r, a) == r.session_id = a.session_id /\ r.key = a.key

\* JavaScript's truthiness of an optional number parameter: undefined and 0
\* are falsy
TruthyNumber(a, name) == Has(a, name) /\ a[name] # 0

\* let expires_at = null; if (ttl_seconds) { d = new Date();
\* d.setSeconds(d.getSeconds() + ttl_seconds); expires_at = d.toISOString() }
\* at time t: the expires_at column of the row, none when it is null
ExpiresAt(a, t) ==
    IF TruthyNumber(a, "ttl_seconds")
    THEN "expires_at" :> (t + a.ttl_seconds)
    ELSE <<>>

\* ShortTermConflict without UNIQUE(session_id, key)
ShortTermConflictNone(rows, a) == {}

\* UNIQUE(session_id, key) with onConflict 'session_id,key': the rows an
\* upsert of a replaces
ShortTermConflict(rows, a) == { r \in rows : ShortTermMatch(r, a) }

\* supabase.from("short_term_memory").upsert({ session_id, key, value,
\* expires_at }, { onConflict }) at time t: the body names every column the
\* model holds, so an update sets them all
ShortTermUpsert(rows, a, t) ==
    (rows \ ShortTermConflict(rows, a))
      \cup { [session_id |-> a.session_id, key |-> a.key, value |-> a.value]
               @@ ExpiresAt(a, t) }

\* data.expires_at && new Date(data.expires_at) < new Date()  at time t
Expired(row, t) == Has(row, "expires_at") /\ row.expires_at < t

\* ShortTermDelete that deletes nothing
ShortTermDeleteNothing(rows, a) == rows

\* supabase.from("short_term_memory").delete().match({ session_id, key })
ShortTermDelete(rows, a) == { r \in rows : ~ ShortTermMatch(r, a) }

\* a second key, for calls on two keys of one session
OtherShortTermKey == "k2"

\* every (session_id, key) a call of the model names
ShortTermEntries ==
    [session_id : SessionIds, key : ShortTermKeys \cup {OtherShortTermKey}]

\* the state of the two stores after construction
KeyValueInit ==
    /\ structured_memories = {}
    /\ short_term_memory = {}
    /\ in_flight = [e \in ShortTermEntries |-> 0]
    /\ last_set = [e \in ShortTermEntries |-> <<>>]

----------------------------------------------------------------------------
(* embedding.ts: the lazily loaded model                                   *)

\* the getEmbedding calls that can be running at once
MaxCallers == 3

Callers == 1 .. MaxCallers

\* generateEmbedding = null; a loaded model is known by the number of the
\* pipeline() call that made it
NoModel == 0

\* a caller outside getEmbedding
NotCalling == [pc |-> "idle", instance |-> NoModel, used |-> NoModel]

----------------------------------------------------------------------------
(* config.ts: the configuration from the environment and the config file   *)

\* a variable that is not set, a field that is absent
undefined == "<undefined>"

EnvNames ==
    {"SUPABASE_PROJECT_URL", "SUPABASE_URL", "SUPABASE_ANON_KEY",
     "SUPABASE_KEY", "SUPABASE_SERVICE_ROLE_KEY"}

ConfigFields == {"projectUrl", "anonKey", "serviceRoleKey"}

\* process.env: a variable is unset, set to the empty string, or set
Environments == [EnvNames -> {undefined, "", "e"}]

\* config.json does not exist (or is not JSON)
NoFile == [exists |-> FALSE]

\* config.json holds an object with some of the three fields
ConfigFiles ==
    {NoFile} \cup
    { [exists |-> TRUE] @@ f : f \in [ConfigFields -> {undefined, "", "f"}] }

\* getConfig() / loadConfig() returned null
NoConfig == [null |-> TRUE]

\* getConfig() has not run
NotLoaded == [loaded |-> FALSE]

\* !v
Falsy(v) == v = undefined \/ v = ""

\* a || b
Or(a, b) == IF Falsy(a) THEN b ELSE a

loadConfig(file) ==
    IF ~ file.exists THEN NoConfig
    ELSE IF Falsy(file.projectUrl) \/ Falsy(file.anonKey) THEN NoConfig
    ELSE [f \in ConfigFields |-> file[f]]

getConfigFromEnv(e) ==
    [projectUrl |-> Or(e["SUPABASE_PROJECT_URL"], e["SUPABASE_URL"]),
     anonKey |-> Or(e["SUPABASE_ANON_KEY"], e["SUPABASE_KEY"]),
     serviceRoleKey |-> e["SUPABASE_SERVICE_ROLE_KEY"]]

\* { ...fileConfig, ...(the entries of envConfig that are not undefined) }
Merged(fileConfig, envConfig) ==
    [f \in ConfigFields |->
        IF envConfig[f] # undefined THEN envConfig[f]
        ELSE IF fileConfig = NoConfig THEN undefined
        ELSE fileConfig[f]]

getConfig(e, file) ==
    LET fileConfig == loadConfig(file)
        envConfig == getConfigFromEnv(e)
        merged == Merged(fileConfig, envConfig)
    IN  IF Falsy(merged.projectUrl) \/ Falsy(merged.anonKey) THEN NoConfig
        ELSE merged

\* the environment the server of the other specifications runs in: the two
\* required variables of the README, no config file
ServerEnv ==
    [n \in EnvNames |->
        IF n \in {"SUPABASE_PROJECT_URL", "SUPABASE_ANON_KEY"} THEN "e"
        ELSE undefined]

\* the process after startup: configured, the model not loaded
ProcessInit ==
    /\ generateEmbedding = NoModel
    /\ pipeline_calls = 0
    /\ callers = [c \in Callers |-> NotCalling]
    /\ env = ServerEnv
    /\ config_file = NoFile
    /\ config = getConfig(env, config_file)

----------------------------------------------------------------------------
(* Actions: one per tool call *)

\* no reply is waiting to be read
NoReply == [op |-> "none"]

Idle == res = NoReply

\* the database (or the network to it) or the embedding provider starts to
\* fail
Outage(what) ==
    /\ Idle
    /\ outage = "none"
    /\ outage' = what
    /\ UNCHANGED <<memory_vars, key_value_vars, process_vars, now, res>>

\* the failure ends
Recover ==
    /\ Idle
    /\ outage # "none"
    /\ outage' = "none"
    /\ UNCHANGED <<memory_vars, key_value_vars, process_vars, now, res>>

\* a request to the database returns { data: null, error }
StoreFails == outage = "store"

\* getEmbedding throws
ProviderFails == outage = "provider"

Init ==
    /\ memories = {}
    /\ memory_relations = {}
    /\ memories_columns = ApplySchema(Len(SchemaSql)).memories_columns
    /\ match_memories_def = ApplySchema(Len(SchemaSql)).match_memories
    /\ memories_indexes = ApplySchema(Len(SchemaSql)).memories_indexes
    /\ migration_result = "none"
    /\ nextId = 1
    /\ nextRelId = 1
    /\ now = 0
    /\ res = NoReply
    /\ KeyValueInit
    /\ outage = "none"
    /\ ProcessInit

\* the operator runs migrations/add_missing_columns.sql
RunMigration ==
    LET db == ApplyMigration(Len(MigrationSql),
                             [memories_columns |-> memories_columns,
                              memories_indexes |-> memories_indexes,
                              failed |-> FALSE])
    IN
    /\ Idle
    /\ UNCHANGED <<key_value_vars, outage, process_vars>>
    /\ memories_columns' = db.memories_columns
    /\ memories_indexes' = db.memories_indexes
    /\ migration_result' = IF db.failed THEN "error" ELSE "completed"
    /\ UNCHANGED <<memories, memory_relations, match_memories_def, nextId,
                   nextRelId, now, res>>

\* the caller reads the reply
Return ==
    /\ ~ Idle
    /\ UNCHANGED <<key_value_vars, outage, process_vars, schema_vars>>
    /\ res' = NoReply
    /\ UNCHANGED <<memories, memory_relations, memories_columns,
                   match_memories_def, nextId, nextRelId, now>>

\* store_memory(a), the database clock having advanced by dt since the
\* last insert
store_memory(a, dt) ==
    LET type == Default(a, "type", "episodic")
        importance == Default(a, "importance", 1)
    IN
    /\ Idle
    /\ UNCHANGED <<key_value_vars, outage, process_vars, schema_vars>>
    /\ nextId <= MaxIds
    /\ IF ImportanceOutOfRange(importance)
       THEN /\ res' = [op |-> "store_memory", args |-> a, isError |-> TRUE,
                       text |-> "validation"]
            /\ UNCHANGED <<memories, nextId, now>>
       ELSE IF ProviderFails
       THEN /\ res' = [op |-> "store_memory", args |-> a, isError |-> TRUE,
                       text |-> "Error"]
            /\ UNCHANGED <<memories, nextId, now>>
       ELSE IF StoreFails \/ ~ (InsertColumns \subseteq memories_columns)
               \/ EmbeddingRejected
       THEN /\ res' = [op |-> "store_memory", args |-> a, isError |-> TRUE,
                       text |-> "Supabase error"]
            /\ UNCHANGED <<memories, nextId, now>>
       ELSE /\ now' = now + dt
            /\ memories' = memories \cup
                  { InsertedRow(InsertData(a), nextId, now') }
            /\ nextId' = nextId + 1
            /\ res' = [op |-> "store_memory", args |-> a, isError |-> FALSE,
                       memory_id |-> nextId, project_id |-> a.project_id,
                       type |-> type]
    /\ UNCHANGED <<memory_relations, memories_columns, match_memories_def,
                   nextRelId>>

search_memories(a) ==
    LET limit == Default(a, "limit", 5)
        similarity_threshold == Default(a, "similarity_threshold", 50)
        queryEmbedding == getEmbedding(a.query)
    IN
    /\ Idle
    /\ UNCHANGED <<key_value_vars, outage, process_vars, schema_vars>>
    /\ IF limit < 1 \/ limit > 50 \/ similarity_threshold < 0
          \/ similarity_threshold > 100
       THEN res' = [op |-> "search_memories", args |-> a, isError |-> TRUE,
                    text |-> "validation"]
       ELSE IF ProviderFails
       THEN res' = [op |-> "search_memories", args |-> a, isError |-> TRUE,
                    text |-> "Error"]
       ELSE IF StoreFails \/ MatchFails(match_memories_def)
       THEN res' = [op |-> "search_memories", args |-> a, isError |-> TRUE,
                    text |-> "Supabase error"]
       ELSE \E data \in match_memories(match_memories_def, queryEmbedding,
                                       a.project_id, OrNull(a, "category"),
                                       similarity_threshold, limit) :
               res' = [op |-> "search_memories", args |-> a, isError |-> FALSE,
                       results |-> data]
    /\ UNCHANGED <<memories, memory_relations, memories_columns,
                   match_memories_def, nextId, nextRelId, now>>

list_memories(a) ==
    /\ Idle
    /\ UNCHANGED <<key_value_vars, outage, process_vars, schema_vars>>
    /\ IF StoreFails \/ ~ (ListColumns \subseteq memories_columns)
       THEN res' = [op |-> "list_memories", args |-> a, isError |-> TRUE,
                    text |-> "Supabase error"]
       ELSE \E data \in ListResults(a) :
               res' = [op |-> "list_memories", args |-> a, isError |-> FALSE,
                       data |-> data]
    /\ UNCHANGED <<memories, memory_relations, memories_columns,
                   match_memories_def, nextId, nextRelId, now>>

delete_memory(memory_id, project_id) ==
    LET deleted == { m \in memories : DeleteWhere(m, memory_id, project_id) }
    IN
    /\ Idle
    /\ UNCHANGED <<key_value_vars, outage, process_vars, schema_vars>>
    /\ IF StoreFails
       THEN /\ res' = [op |-> "delete_memory",
                       args |-> [memory_id |-> memory_id, project_id |-> project_id],
                       isError |-> TRUE, text |-> "Supabase error"]
            /\ UNCHANGED <<memories, memory_relations>>
       ELSE /\ memories' = memories \ deleted
            /\ memory_relations' = OnDeleteCascade(memory_relations, Ids(deleted))
            /\ res' = [op |-> "delete_memory",
                       args |-> [memory_id |-> memory_id, project_id |-> project_id],
                       isError |-> FALSE, text |-> "Memory deleted"]
    /\ UNCHANGED <<memories_columns, match_memories_def, nextId, nextRelId, now>>

get_project_stats(project_id) ==
    /\ Idle
    /\ UNCHANGED <<key_value_vars, outage, process_vars, schema_vars>>
    /\ IF StoreFails
       THEN res' = [op |-> "get_project_stats",
                    args |-> [project_id |-> project_id], isError |-> TRUE,
                    text |-> "Supabase error"]
       ELSE res' = [op |-> "get_project_stats",
                    args |-> [project_id |-> project_id], isError |-> FALSE,
                    total_memories |->
                       Cardinality({ m \in memories : StatsWhere(m, project_id) })]
    /\ UNCHANGED <<memories, memory_relations, memories_columns,
                   match_memories_def, nextId, nextRelId, now>>

\* create_reaction written as an upsert that ignores a duplicate triple
create_reaction_ignoreDuplicates(source_id, target_id, relation_type) ==
    LET args == [source_id |-> source_id, target_id |-> target_id,
                 relation_type |-> relation_type]
    IN
    /\ Idle
    /\ UNCHANGED <<key_value_vars, outage, process_vars, schema_vars>>
    /\ IF StoreFails
       THEN /\ res' = [op |-> "create_reaction", args |-> args,
                       isError |-> TRUE, text |-> "Supabase error"]
            /\ UNCHANGED <<memory_relations, nextRelId>>
       ELSE IF ForeignKeyViolation(source_id, target_id)
       THEN /\ res' = [op |-> "create_reaction", args |-> args,
                       isError |-> TRUE, text |-> "foreign key violation"]
            /\ UNCHANGED <<memory_relations, nextRelId>>
       ELSE IF UniqueViolation(source_id, target_id, relation_type)
       THEN /\ res' = [op |-> "create_reaction", args |-> args,
                       isError |-> FALSE, text |-> "Relation created"]
            /\ UNCHANGED <<memory_relations, nextRelId>>
       ELSE /\ nextRelId <= MaxRelIds
            /\ memory_relations' = memory_relations \cup
                  { [id |-> nextRelId, source_id |-> source_id,
                     target_id |-> target_id, relation_type |-> relation_type] }
            /\ nextRelId' = nextRelId + 1
            /\ res' = [op |-> "create_reaction", args |-> args,
                       isError |-> FALSE, text |-> "Relation created"]
    /\ UNCHANGED <<memories, memories_columns, match_memories_def, nextId, now>>

\* the tool the server registers as "create_reaction"
create_reaction(source_id, target_id, relation_type) ==
    LET args == [source_id |-> source_id, target_id |-> target_id,
                 relation_type |-> relation_type]
    IN
    /\ Idle
    /\ UNCHANGED <<key_value_vars, outage, process_vars, schema_vars>>
    /\ IF StoreFails
       THEN /\ res' = [op |-> "create_reaction", args |-> args,
                       isError |-> TRUE, text |-> "Supabase error"]
            /\ UNCHANGED <<memory_relations, nextRelId>>
       ELSE IF ForeignKeyViolation(source_id, target_id)
       THEN /\ res' = [op |-> "create_reaction", args |-> args,
                       isError |-> TRUE, text |-> "foreign key violation"]
            /\ UNCHANGED <<memory_relations, nextRelId>>
       ELSE IF UniqueViolation(source_id, target_id, relation_type)
       THEN /\ res' = [op |-> "create_reaction", args |-> args,
                       isError |-> TRUE, text |-> "unique violation"]
            /\ UNCHANGED <<memory_relations, nextRelId>>
       ELSE /\ nextRelId <= MaxRelIds
            /\ memory_relations' = memory_relations \cup
                  { [id |-> nextRelId, source_id |-> source_id,
                     target_id |-> target_id, relation_type |-> relation_type] }
            /\ nextRelId' = nextRelId + 1
            /\ res' = [op |-> "create_reaction", args |-> args,
                       isError |-> FALSE, text |-> "Relation created"]
    /\ UNCHANGED <<memories, memories_columns, match_memories_def, nextId, now>>

get_related_memories(memory_id) ==
    /\ Idle
    /\ UNCHANGED <<key_value_vars, outage, process_vars, schema_vars>>
    /\ IF StoreFails \/ RelatedFails
       THEN res' = [op |-> "get_related_memories",
                    args |-> [memory_id |-> memory_id], isError |-> TRUE,
                    text |-> "column m.type does not exist"]
       ELSE res' = [op |-> "get_related_memories",
                    args |-> [memory_id |-> memory_id], isError |-> FALSE,
                    data |-> RelatedMemories(memory_id)]
    /\ UNCHANGED <<memories, memory_relations, memories_columns,
                   match_memories_def, nextId, nextRelId, now>>

\* a second passes
Tick ==
    /\ Idle
    /\ now < MaxTime
    /\ now' = now + 1
    /\ UNCHANGED <<memory_vars, process_vars, outage, key_value_vars, res>>

set_structured_memory(a) ==
    /\ Idle
    /\ IF StoreFails
       THEN /\ res' = [op |-> "set_structured_memory", args |-> a,
                       isError |-> TRUE, text |-> "Error"]
            /\ UNCHANGED structured_memories
       ELSE /\ structured_memories' = StructuredUpsert(structured_memories, a, now)
            /\ res' = [op |-> "set_structured_memory", args |-> a,
                       isError |-> FALSE, text |-> "Structured memory saved"]
    /\ UNCHANGED <<memory_vars, process_vars, outage, now, short_term_memory, in_flight, last_set>>

\* .select("value, description").match(a).single(): an error (the request
\* failed, or it found no row or more than one) is answered with "Not found"
get_structured_memory(a) ==
    LET data == { r \in structured_memories : StructuredMatch(r, a) }
    IN
    /\ Idle
    /\ IF StoreFails \/ Cardinality(data) # 1
       THEN res' = [op |-> "get_structured_memory", args |-> a,
                    isError |-> FALSE, text |-> "Not found"]
       ELSE \E r \in data :
               res' = [op |-> "get_structured_memory", args |-> a,
                       isError |-> FALSE,
                       json |-> [value |-> r.value,
                                 description |-> r.description]]
    /\ UNCHANGED <<memory_vars, process_vars, outage, now, key_value_vars>>

\* expires_at is computed and the upsert sent at time `now`; last_set
\* records the call and its time
set_short_term_memory(a) ==
    /\ Idle
    /\ IF StoreFails
       THEN /\ res' = [op |-> "set_short_term_memory", args |-> a,
                       isError |-> TRUE, text |-> "Error"]
            /\ UNCHANGED <<short_term_memory, last_set>>
       ELSE /\ short_term_memory' = ShortTermUpsert(short_term_memory, a, now)
            /\ last_set' = [last_set EXCEPT ![EntryOf(a)] =
                               a @@ [at |-> now]]
            /\ res' = [op |-> "set_short_term_memory", args |-> a,
                       isError |-> FALSE, text |-> "Short-term memory set"]
    /\ UNCHANGED <<memory_vars, process_vars, outage, now, structured_memories, in_flight>>

\* get_short_term_memory up to its answer or, for an expired row, up to the
\* point where the DELETE is about to be sent: the SELECT .single(), whose
\* error (the request failed, or no row) is answered with "null", and the
\* test of expires_at against new Date()
get_short_term_memory(a) ==
    LET data == { r \in short_term_memory : ShortTermMatch(r, a) }
    IN
    /\ Idle
    /\ IF StoreFails \/ Cardinality(data) # 1
       THEN /\ res' = [op |-> "get_short_term_memory", args |-> a,
                       isError |-> FALSE, text |-> "null"]
            /\ UNCHANGED in_flight
       ELSE \E r \in data :
               IF Expired(r, now)
               THEN /\ in_flight[a] < MaxInFlight
                    /\ in_flight' = [in_flight EXCEPT ![a] = @ + 1]
                    /\ UNCHANGED res
               ELSE /\ res' = [op |-> "get_short_term_memory", args |-> a,
                               isError |-> FALSE, json |-> r.value]
                    /\ UNCHANGED in_flight
    /\ UNCHANGED <<memory_vars, process_vars, outage, now, structured_memories, short_term_memory,
                   last_set>>

\* the rest of a get_short_term_memory call that found an expired row: the
\* DELETE, whose outcome is not looked at, and the answer
get_short_term_memory_delete(a) ==
    /\ Idle
    /\ in_flight[a] > 0
    /\ in_flight' = [in_flight EXCEPT ![a] = @ - 1]
    /\ short_term_memory' = IF StoreFails THEN short_term_memory
                            ELSE ShortTermDelete(short_term_memory, a)
    /\ res' = [op |-> "get_short_term_memory", args |-> a, isError |-> FALSE,
               text |-> "null (expired)"]
    /\ UNCHANGED <<memory_vars, process_vars, outage, now, structured_memories, last_set>>

----------------------------------------------------------------------------
(* The episodic store: store, search, list, delete, stats *)

Next ==
    \/ RunMigration
    \/ \E a \in StoreInputs, dt \in {0, 1} : store_memory(a, dt)
    \/ \E a \in SearchInputs : search_memories(a)
    \/ \E a \in ListInputs : list_memories(a)
    \/ \E id \in MemoryIds, p \in ProjectIds : delete_memory(id, p)
    \/ \E p \in ProjectIds : get_project_stats(p)
    \/ Return

Spec == Init /\ [][Next]_vars

----------------------------------------------------------------------------
(* The relation graph: store, create_reaction, get_related_memories, delete *)

\* arguments of store_memory used with the graph
GraphStoreInputs ==
    { [project_id |-> "p1", category |-> "decision", content |-> "near"],
      [project_id |-> "p2", category |-> "snippet", content |-> "far",
       type |-> "insight"] }

NextGraph ==
    \/ RunMigration
    \/ \E a \in GraphStoreInputs : store_memory(a, 1)
    \/ \E s, t \in MemoryIds, rt \in RelationTypes : create_reaction(s, t, rt)
    \/ \E id \in MemoryIds : get_related_memories(id)
    \/ \E id \in MemoryIds, p \in ProjectIds : delete_memory(id, p)
    \/ Return

SpecGraph == Init /\ [][NextGraph]_vars

----------------------------------------------------------------------------
(* Properties *)

\* the stored memory with id `id`
MemoryOf(id) == CHOOSE m \in memories : m.id = id

\* the replies that carry rows of a search
SearchReply == res.op = "search_memories" /\ ~ res.isError

ListReply == res.op = "list_memories" /\ ~ res.isError

RelatedReply == res.op = "get_related_memories" /\ ~ res.isError

\* whether relation r is the edge (source_id, target_id, relation_type) of a
\* create_reaction call with arguments a
SameTriple(r, a) ==
    /\ r.source_id = a.source_id
    /\ r.target_id = a.target_id
    /\ r.relation_type = a.relation_type

\* what search_memories, list_memories and get_project_stats return for
\* project p is made of memories of p
ReadsAreScoped ==
    /\ SearchReply =>
         \A i \in 1 .. Len(res.results) :
            /\ res.results[i].project_id = res.args.project_id
            /\ \E m \in memories :
                  m.id = res.results[i].id /\ m.project_id = res.args.project_id
    /\ ListReply =>
         \A i \in 1 .. Len(res.data) :
            \E m \in memories :
               m.id = res.data[i].id /\ m.project_id = res.args.project_id
    /\ res.op = "get_project_stats" =>
         res.total_memories
            <= Cardinality({ m \in memories : m.project_id = res.args.project_id })

\* C1: project isolation of memories. After any sequence of store_memory and
\* delete_memory calls, search_memories, list_memories and get_project_stats
\* called with project p return or count only memories of p, and
\* delete_memory(id, p) removes no memory of a project q # p, also when id
\* is the id of a memory of q.
C1_ProjectIsolation ==
    [][ /\ ReadsAreScoped'
        /\ res'.op = "delete_memory" =>
             \A m \in memories :
                m.project_id # res'.args.project_id => m \in memories' ]_vars

\* C1 witness: delete_memory was called for project p with the id of a
\* memory of another project, which is still stored, while p holds
\* memories too
C1_Witness ==
    /\ res.op = "delete_memory"
    /\ \E m \in memories :
          m.id = res.args.memory_id /\ m.project_id # res.args.project_id
    /\ \E m \in memories : m.project_id = res.args.project_id

\* C2: delete_memory(memory_id, project_id) reports NotFound, not success,
\* whenever no memory with that id is stored in that project, and then the
\* memories and the relations are unchanged.
C2_DeleteReportsNotFound ==
    [][ ( /\ res'.op = "delete_memory"
          /\ ~ \E m \in memories :
                  /\ m.id = res'.args.memory_id
                  /\ m.project_id = res'.args.project_id )
        => /\ res'.text # "Memory deleted"
           /\ memories' = memories
           /\ memory_relations' = memory_relations ]_vars

\* C3: no dangling relation. In every reachable state both endpoints of
\* every stored relation are ids of stored memories; so a delete_memory of M
\* removes every relation that has M as source or target.
C3_NoDanglingRelation ==
    \A r \in memory_relations :
        r.source_id \in Ids(memories) /\ r.target_id \in Ids(memories)

\* C3 witness: a memory that had a relation with a memory that is still
\* stored has been deleted, and the relation went with it
C3_Witness ==
    /\ res.op = "delete_memory"
    /\ res.args.memory_id < nextId
    /\ res.args.memory_id \notin Ids(memories)
    /\ memories # {}
    /\ nextRelId > 1
    /\ memory_relations = {}

\* C4: whatever the interleaving of delete_memory with get_related_memories,
\* no get_related_memories result holds an entry whose paired memory, or
\* whose start memory, has been deleted: the deletion and its cascade are
\* seen as one step.
C4_TraverseSeesNoDeletedMemory ==
    RelatedReply =>
        \A row \in DOMAIN res.data :
            /\ row.memory_id \in Ids(memories)
            /\ res.args.memory_id \in Ids(memories)

\* C4 witness: get_related_memories of a stored memory returns nothing
\* after a relation was created and a memory deleted
C4_Witness ==
    /\ RelatedReply
    /\ res.args.memory_id \in Ids(memories)
    /\ DOMAIN res.data = {}
    /\ nextRelId > 1
    /\ \E id \in 1 .. (nextId - 1) : id \notin Ids(memories)

\* C5: relation uniqueness. In every reachable state there is at most one
\* stored relation for each triple (source_id, target_id, relation_type).
C5_RelationUnique ==
    \A r1, r2 \in memory_relations :
        ( /\ r1.source_id = r2.source_id
          /\ r1.target_id = r2.target_id
          /\ r1.relation_type = r2.relation_type ) => r1 = r2

\* C5 witness: two relations are stored and a create_reaction with the
\* triple of one of them has been made
C5_Witness ==
    /\ Cardinality(memory_relations) = 2
    /\ res.op = "create_reaction"
    /\ \E r \in memory_relations : r.id = 1 /\ SameTriple(r, res.args)

\* C6: create_reaction with a triple that is stored already returns an
\* error result, not a silent success, and leaves the relations unchanged.
C6_DuplicateIsError ==
    [][ ( /\ res'.op = "create_reaction"
          /\ \E r \in memory_relations : SameTriple(r, res'.args) )
        => /\ res'.isError
           /\ memory_relations' = memory_relations ]_vars

\* C6 witness: a create_reaction was refused, its endpoints being stored
\* and its triple too
C6_Witness ==
    /\ res.op = "create_reaction"
    /\ res.isError
    /\ res.args.source_id \in Ids(memories)
    /\ res.args.target_id \in Ids(memories)
    /\ \E r \in memory_relations : SameTriple(r, res.args)

\* C7: create_reaction fails with an error result and creates no relation
\* whenever source_id or target_id is not the id of a stored memory.
C7_MissingEndpointIsError ==
    [][ ( /\ res'.op = "create_reaction"
          /\ \/ res'.args.source_id \notin Ids(memories)
             \/ res'.args.target_id \notin Ids(memories) )
        => /\ res'.isError
           /\ memory_relations' = memory_relations ]_vars

\* C7 witness: a create_reaction from a stored memory to an id that is not
\* stored was refused
C7_Witness ==
    /\ res.op = "create_reaction"
    /\ res.isError
    /\ res.args.source_id \in Ids(memories)
    /\ res.args.target_id \notin Ids(memories)

\* how many entries of a get_related_memories result have this direction,
\* paired memory and relation type
RECURSIVE SumOver(_, _)
SumOver(f, S) ==
    IF S = {} THEN 0
    ELSE LET x == CHOOSE y \in S : TRUE IN f[x] + SumOver(f, S \ {x})

Entries(data, direction, memory_id, relation_type) ==
    SumOver(data, { row \in DOMAIN data :
                      /\ row.direction = direction
                      /\ row.memory_id = memory_id
                      /\ row.relation_type = relation_type })

\* C8: get_related_memories(M) returns exactly one entry per stored
\* relation with source_id = M (direction outgoing, paired with the target
\* memory) and one per stored relation with target_id = M (direction
\* incoming, paired with the source memory), and nothing else: no memory
\* that is only reachable through two or more hops.
C8_TraverseIsOneHop ==
    RelatedReply =>
        LET M == res.args.memory_id
            data == res.data
        IN /\ \A r \in memory_relations :
                /\ r.source_id = M =>
                     Entries(data, "outgoing", r.target_id, r.relation_type) = 1
                /\ r.target_id = M =>
                     Entries(data, "incoming", r.source_id, r.relation_type) = 1
           /\ \A row \in DOMAIN data :
                /\ data[row] >= 1
                /\ row.direction \in {"outgoing", "incoming"}
                /\ row.direction = "outgoing" =>
                     \E r \in memory_relations :
                        /\ r.source_id = M
                        /\ r.target_id = row.memory_id
                        /\ r.relation_type = row.relation_type
                /\ row.direction = "incoming" =>
                     \E r \in memory_relations :
                        /\ r.target_id = M
                        /\ r.source_id = row.memory_id
                        /\ r.relation_type = row.relation_type
                /\ \E m \in memories :
                      /\ m.id = row.memory_id
                      /\ m.category = row.category
                      /\ m.content = row.content
                      /\ m.type = row.type

\* C8 witness: A -> B -> C are stored, and get_related_memories(A) has
\* returned B and not C
C8_Witness ==
    /\ RelatedReply
    /\ \E r1, r2 \in memory_relations :
          /\ r1.source_id = res.args.memory_id
          /\ r2.source_id = r1.target_id
          /\ r2.target_id \notin {r1.source_id, r1.target_id}
          /\ \E row \in DOMAIN res.data : row.memory_id = r1.target_id
          /\ \A row \in DOMAIN res.data : row.memory_id # r2.target_id

\* whether the caller of the search gave a category
CategoryGiven == Has(res.args, "category")

\* C9: every result of search_memories has similarity >= the given
\* threshold, and when a category is given every result has exactly that
\* category.
C9_SearchFilter ==
    SearchReply =>
        \A i \in 1 .. Len(res.results) :
            /\ res.results[i].similarity
                 >= Default(res.args, "similarity_threshold", 50)
            /\ CategoryGiven => res.results[i].category = res.args.category

\* C10: search_memories results are ordered by importance descending and,
\* among equal importance, by similarity descending, under the
\* match_memories that is in force once schema.sql has been applied in full.
C10_SearchRanking ==
    SearchReply =>
        \A i, j \in 1 .. Len(res.results) :
            i < j =>
               LET a == res.results[i]
                   b == res.results[j]
               IN \/ MemoryOf(a.id).importance > MemoryOf(b.id).importance
                  \/ /\ MemoryOf(a.id).importance = MemoryOf(b.id).importance
                     /\ a.similarity >= b.similarity

\* the memories that pass the project, category and threshold filters of
\* the search whose reply is in res
Candidates ==
    { m \in memories :
        /\ m.project_id = res.args.project_id
        /\ CategoryGiven => m.category = res.args.category
        /\ Similarity(m.embedding, getEmbedding(res.args.query))
             >= Default(res.args, "similarity_threshold", 50) }

\* whether memory a comes before memory b in the (importance descending,
\* similarity descending) ranking for the query of the reply in res
Outranks(a, b) ==
    \/ a.importance > b.importance
    \/ /\ a.importance = b.importance
       /\ Similarity(a.embedding, getEmbedding(res.args.query))
            > Similarity(b.embedding, getEmbedding(res.args.query))

\* C11: search_memories returns at most `limit` results, and they are the
\* first `limit` candidates of the (importance descending, similarity
\* descending) ranking of the memories passing the project, category and
\* threshold filters: no candidate left out outranks a returned one.
C11_SearchLimit ==
    SearchReply =>
        /\ Len(res.results) <= Default(res.args, "limit", 5)
        /\ \A m \in Candidates :
              (\A i \in 1 .. Len(res.results) : res.results[i].id # m.id) =>
                 \A i \in 1 .. Len(res.results) :
                    ~ Outranks(m, MemoryOf(res.results[i].id))

----------------------------------------------------------------------------
(* A database that has the tables and not the function match_memories: the *)
(* first statement of schema.sql has run, the function was never created   *)
(* (the case of README "Troubleshooting").                                 *)

InitTablesOnly ==
    /\ memories = {}
    /\ memory_relations = {}
    /\ memories_columns = ApplySchema(1).memories_columns
    /\ match_memories_def = ApplySchema(1).match_memories
    /\ memories_indexes = ApplySchema(1).memories_indexes
    /\ migration_result = "none"
    /\ nextId = 1
    /\ nextRelId = 1
    /\ now = 0
    /\ res = NoReply
    /\ KeyValueInit
    /\ outage = "none"
    /\ ProcessInit

SpecTablesOnly == InitTablesOnly /\ [][Next]_vars

\* whether the rows of a reply are the memories of project p, newest first
ChronologicalListing(rows, p) ==
    /\ { rows[i].id : i \in 1 .. Len(rows) }
         = { m.id : m \in { x \in memories : x.project_id = p } }
    /\ \A i, j \in 1 .. Len(rows) :
          i < j => MemoryOf(rows[i].id).created_at >= MemoryOf(rows[j].id).created_at

\* C12: when the function match_memories is unavailable, search_memories
\* does not return an error: it returns the project's memories in
\* chronological (created_at descending) order, as list_memories does.
C12_SearchFallsBackToListing ==
    (res.op = "search_memories" /\ match_memories_def = NULL
       /\ ~ (Has(res, "text") /\ res.text = "validation")) =>
        /\ ~ res.isError
        /\ ChronologicalListing(res.results, res.args.project_id)

----------------------------------------------------------------------------
(* The structured store: set_structured_memory, get_structured_memory *)

NextStructured ==
    \/ Tick
    \/ \E a \in SetStructuredInputs : set_structured_memory(a)
    \/ \E a \in GetStructuredInputs : get_structured_memory(a)
    \/ Return

SpecStructured == Init /\ [][NextStructured]_vars

----------------------------------------------------------------------------
(* The short-term store: set_short_term_memory, get_short_term_memory *)

NextShortTerm ==
    \/ Tick
    \/ \E a \in SetShortTermInputs : set_short_term_memory(a)
    \/ \E a \in GetShortTermInputs : get_short_term_memory(a)
    \/ \E a \in GetShortTermInputs : get_short_term_memory_delete(a)
    \/ Return

SpecShortTerm == Init /\ [][NextShortTerm]_vars

----------------------------------------------------------------------------
(* Properties of the structured store *)

\* the step is a set_structured_memory call
SetStructuredStep == res = NoReply /\ res'.op = "set_structured_memory"

\* at most one row per (project_id, category, key)
StructuredUnique(rows) ==
    \A r1, r2 \in rows : StructuredMatch(r1, r2) => r1 = r2

\* C13: structured upsert. After any sequence of set_structured_memory calls
\* there is at most one entry per (project_id, category, key); a set on an
\* existing triple keeps the entry's created_at and sets updated_at to the
\* time of the set; a set on an absent triple creates the entry with
\* created_at = updated_at.
C13_StructuredUpsert ==
    [][ /\ StructuredUnique(structured_memories')
        /\ SetStructuredStep =>
             LET old == { r \in structured_memories : StructuredMatch(r, res'.args) }
                 new == { r \in structured_memories' : StructuredMatch(r, res'.args) }
             IN /\ Cardinality(new) = 1
                /\ \A r \in new :
                      IF old = {}
                      THEN r.created_at = now /\ r.updated_at = r.created_at
                      ELSE /\ \A o \in old : r.created_at = o.created_at
                           /\ r.updated_at = now ]_vars

\* a set has just updated an entry created at an earlier time
C13_Witness ==
    /\ res.op = "set_structured_memory"
    /\ \E r \in structured_memories :
          /\ StructuredMatch(r, res.args)
          /\ r.created_at < now
          /\ r.updated_at = now

\* C14: get_structured_memory(p, c, k) returns the value and the description
\* given by the most recent set on (p, c, k): a set replaces both, so after a
\* set without a description the entry has no description; with no set on
\* the triple the reply is "Not found".  (Only a set changes the table, and
\* a get answers from the row it finds.)
C14_GetReturnsLastSet ==
    [][ /\ SetStructuredStep =>
             \E r \in structured_memories' :
                /\ StructuredMatch(r, res'.args)
                /\ r.value = res'.args.value
                /\ r.description = IF Has(res'.args, "description")
                                   THEN res'.args.description ELSE NULL
        /\ ~ SetStructuredStep => structured_memories' = structured_memories
        /\ (res = NoReply /\ res'.op = "get_structured_memory") =>
             LET data == { r \in structured_memories : StructuredMatch(r, res'.args) }
             IN IF data = {}
                THEN Has(res', "text") /\ res'.text = "Not found"
                ELSE /\ Has(res', "json")
                     /\ \E r \in data :
                           res'.json = [value |-> r.value,
                                        description |-> r.description] ]_vars

----------------------------------------------------------------------------
(* Both stores, calls on one structured entry and on one short-term entry: *)
(* the statements of concurrent calls on a key, in every order             *)

NextKeyValue ==
    \/ Tick
    \/ \E a \in SetStructuredInputs :
          a.project_id = "p1" /\ set_structured_memory(a)
    \/ \E a \in GetStructuredInputs :
          a.project_id = "p1" /\ get_structured_memory(a)
    \/ \E a \in SetShortTermInputs :
          a.session_id = "s1" /\ set_short_term_memory(a)
    \/ \E a \in GetShortTermInputs :
          a.session_id = "s1" /\ get_short_term_memory(a)
    \/ \E a \in GetShortTermInputs :
          a.session_id = "s1" /\ get_short_term_memory_delete(a)
    \/ Return

SpecKeyValue == Init /\ [][NextKeyValue]_vars

\* the step is a set_short_term_memory call
SetShortTermStep == res = NoReply /\ res'.op = "set_short_term_memory"

\* at most one row per (session_id, key)
ShortTermUnique(rows) ==
    \A r1, r2 \in rows : ShortTermMatch(r1, r2) => r1 = r2

\* C15: concurrent sets on one key.  Each set is one upsert statement, so
\* the statements of two concurrent sets on the same (project_id, category,
\* key) or (session_id, key) run in some order: in every state there is at
\* most one row per key (no reader sees two), every set returns success,
\* and after a set the one row for its key holds the value of that set.
C15_ConcurrentSets ==
    [][ /\ StructuredUnique(structured_memories')
        /\ ShortTermUnique(short_term_memory')
        /\ SetStructuredStep =>
             /\ ~ res'.isError
             /\ \E r \in structured_memories' :
                   /\ StructuredMatch(r, res'.args)
                   /\ r.value = res'.args.value
        /\ SetShortTermStep =>
             /\ ~ res'.isError
             /\ \E r \in short_term_memory' :
                   /\ ShortTermMatch(r, res'.args)
                   /\ r.value = res'.args.value ]_vars

\* two sets on one structured triple in the same second (the second one, a
\* set without description, met the entry of the first) while the
\* short-term entry has been set as well
C15_Witness ==
    /\ res.op = "set_structured_memory"
    /\ ~ Has(res.args, "description")
    /\ \E r \in structured_memories :
          /\ StructuredMatch(r, res.args)
          /\ r.description = "d1"
          /\ r.value = res.args.value
          /\ r.updated_at = r.created_at
    /\ short_term_memory # {}

----------------------------------------------------------------------------
(* Properties of the short-term store *)

\* the reply in res carries a stored value
ValueReply == res.op = "get_short_term_memory" /\ Has(res, "json")

\* the rows of the entry named by the call whose reply is in res
ReplyRows == { r \in short_term_memory : ShortTermMatch(r, res.args) }

\* C16: set_short_term_memory stores expires_at = now + ttl_seconds whenever
\* ttl_seconds is given (ttl_seconds = 0 included, which yields an entry
\* that is expired when written), and expires_at = null only when
\* ttl_seconds is omitted.
C16_ExpiresAtFromTtl ==
    res.op = "set_short_term_memory" =>
        \E r \in ReplyRows :
            IF Has(res.args, "ttl_seconds")
            THEN Has(r, "expires_at") /\ r.expires_at = now + res.args.ttl_seconds
            ELSE ~ Has(r, "expires_at")

\* C17: get_short_term_memory treats an entry as expired when
\* expires_at <= now: a get at the instant now = expires_at does not return
\* the stored value (it answers expired / not-found and deletes the entry).
C17_ExpiredAtTheInstant ==
    ValueReply =>
        \A r \in ReplyRows : ~ (Has(r, "expires_at") /\ r.expires_at <= now)

\* the step ends a get_short_term_memory call
GetShortTermStep == res = NoReply /\ res'.op = "get_short_term_memory"

\* the reply of the step is that of a call which had read its row before it
\* sent the DELETE, possibly before the last set
AfterDeleteReply == Has(res', "text") /\ res'.text = "null (expired)"

\* the reply of the step carries value v
ReturnsValue(v) == Has(res', "json") /\ res'.json = v

\* a get on entry e at the current time finds no value: there is no row, or
\* the row is expired
NotFound(e) ==
    \A r \in short_term_memory : ShortTermMatch(r, e) => Expired(r, now)

\* C18: ephemeral expiry.  For an entry set with a TTL, a get before
\* expires_at (= the time of the set + ttl_seconds) returns the stored
\* value and a get after expires_at returns not-found; a get returns a
\* value only while the key has one, and a key that has none (a get on it
\* returns not-found) has none after any step that is not a set on that
\* key, so that no later get returns the old value.
C18_EphemeralExpiry ==
    [][ /\ (GetShortTermStep /\ Has(last_set[res'.args], "ttl_seconds")) =>
             LET entry == last_set[res'.args]
                 expires_at == entry.at + entry.ttl_seconds
             IN /\ (now < expires_at /\ ~ AfterDeleteReply)
                      => ReturnsValue(entry.value)
                /\ now > expires_at => ~ Has(res', "json")
        /\ GetShortTermStep => (Has(res', "json") => ~ NotFound(res'.args))
        /\ \A e \in GetShortTermInputs :
              (NotFound(e) /\ ~ (SetShortTermStep /\ EntryOf(res'.args) = e))
                 => NotFound(e)' ]_vars

\* C19: an entry stored with expires_at = null is returned by every later
\* get_short_term_memory on its (session_id, key), however much time
\* passes, until a later set on the key overwrites it.
C19_NoExpiryWithoutTtl ==
    [][ ( /\ GetShortTermStep
          /\ Has(last_set[res'.args], "value")
          /\ ExpiresAt(last_set[res'.args], last_set[res'.args].at) = <<>>
          /\ ~ AfterDeleteReply )
        => ReturnsValue(last_set[res'.args].value) ]_vars

\* C20: lazy expiry deletion.  A get that found an expired entry sends the
\* DELETE and answers "null (expired)", never an error, and no row of the
\* (session_id, key) exists after it; this holds for each of two gets that
\* race on the same expired key.
C20_LazyExpiryDeletion ==
    [][ (GetShortTermStep /\ in_flight' # in_flight) =>
            /\ ~ res'.isError
            /\ res'.text = "null (expired)"
            /\ \A r \in short_term_memory' : ~ ShortTermMatch(r, res'.args) ]_vars

\* one of two gets that raced on an expired key has deleted the row and
\* answered; the other one is about to send its DELETE
C20_Witness ==
    /\ res.op = "get_short_term_memory"
    /\ Has(res, "text") /\ res.text = "null (expired)"
    /\ in_flight[res.args] = 1
    /\ ReplyRows = {}
    /\ Has(last_set[res.args], "ttl_seconds")
    /\ last_set[res.args].at + last_set[res.args].ttl_seconds < now

----------------------------------------------------------------------------
(* Properties of store_memory, get_project_stats and list_memories *)

\* the step is a store_memory call
StoreStep == res = NoReply /\ res'.op = "store_memory"

\* C21: store_memory answers a call whose importance is outside 1 .. 5, or
\* whose embedding does not have the 384 elements of the column, with an
\* error result and persists nothing: table memories is as it was.
C21_StoreRejectsInvalid ==
    [][ ( /\ StoreStep
          /\ \/ Default(res'.args, "importance", 1) < 1
             \/ Default(res'.args, "importance", 1) > 5
             \/ EMBEDDING_DIMENSION # 384 )
        => (res'.isError /\ memories' = memories) ]_vars

\* a call with importance 6 was refused on a database that takes valid
\* calls (the migration has run, memories are stored)
C21_Witness ==
    /\ res.op = "store_memory"
    /\ Has(res.args, "importance") /\ res.args.importance > 5
    /\ res.isError
    /\ InsertColumns \subseteq memories_columns
    /\ memories # {}

\* C22: every successful store_memory persists exactly one new memory: its
\* id was never assigned before, created_at = updated_at, project_id,
\* category and content are the given ones, an omitted type is 'episodic',
\* an omitted importance 1, an omitted metadata {}; no stored memory is
\* modified or removed.
C22_StorePersistsOne ==
    [][ (StoreStep /\ ~ res'.isError) =>
          \E m \in memories' :
             /\ m \notin memories
             /\ memories' = memories \cup {m}
             /\ m.id = res'.memory_id
             /\ m.id \notin 1 .. (nextId - 1)
             /\ \A o \in memories : o.id # m.id
             /\ m.id < nextId'
             /\ m.created_at = m.updated_at
             /\ m.project_id = res'.args.project_id
             /\ m.category = res'.args.category
             /\ m.content = res'.args.content
             /\ m.type = Default(res'.args, "type", "episodic")
             /\ m.importance = Default(res'.args, "importance", 1)
             /\ m.metadata = Default(res'.args, "metadata", "{}") ]_vars

\* a store that left type, importance and metadata out has succeeded after
\* an earlier memory was deleted
C22_Witness ==
    /\ res.op = "store_memory"
    /\ ~ res.isError
    /\ ~ Has(res.args, "type")
    /\ ~ Has(res.args, "importance")
    /\ ~ Has(res.args, "metadata")
    /\ Cardinality(memories) < nextId - 1

\* C23: after any sequence of store_memory and delete_memory calls,
\* get_project_stats(p).total_memories is the number of memories stored
\* with project_id = p at the time of the call.
C23_StatsCount ==
    res.op = "get_project_stats" =>
        /\ ~ res.isError
        /\ res.total_memories
             = Cardinality({ m \in memories : m.project_id = res.args.project_id })

\* stats of a project that holds a memory, while the other project holds one
\* too and a memory has been deleted
C23_Witness ==
    /\ res.op = "get_project_stats"
    /\ res.total_memories >= 1
    /\ \E m \in memories : m.project_id # res.args.project_id
    /\ Cardinality(memories) < nextId - 1

\* the memories of the project, and of the category when one is given, that
\* the list whose reply is in res is about
Listed ==
    { m \in memories :
        /\ m.project_id = res.args.project_id
        /\ Has(res.args, "category") => m.category = res.args.category }

\* the offsets of the pages other than the one in res, when the caller pages
\* with offsets 0, limit, 2 * limit, ...
OtherOffsets ==
    { o \in 0 .. Cardinality(memories) :
        /\ o % Default(res.args, "limit", 20) = 0
        /\ o # Default(res.args, "offset", 0) }

\* C24: list_memories(p, category?, limit, offset) returns the memories of
\* project p (of the category when one is given) ordered by created_at
\* descending, skipping the first `offset` and returning at most `limit` of
\* them; in a quiescent store, paging with offsets 0, limit, 2 * limit, ...
\* returns every matching memory exactly once: every page has its share of
\* the matching memories and no memory is on two pages.
C24_ListPaging ==
    (ListReply /\ Default(res.args, "limit", 20) \in 1 .. 100
               /\ Default(res.args, "offset", 0) % Default(res.args, "limit", 20) = 0) =>
        LET limit == Default(res.args, "limit", 20)
            offset == Default(res.args, "offset", 0)
            newer == { x \in Listed \X Listed : x[1].created_at > x[2].created_at }
        IN /\ \E s \in OrderBy(Listed, newer) :
                 /\ Len(res.data) = Len(Range(s, offset, offset + limit - 1))
                 /\ \A i \in 1 .. Len(res.data) :
                       res.data[i].id = Range(s, offset, offset + limit - 1)[i].id
           /\ \A o \in OtherOffsets :
                 \A page \in ListResults([offset |-> o] @@ res.args) :
                    \A i \in 1 .. Len(res.data), j \in 1 .. Len(page) :
                       res.data[i].id # page[j].id

\* the reply in res is a validation error: the call was refused, no
\* statement was sent
ValidationError == res.isError /\ res.text = "validation"

\* C25: out-of-range paging and search parameters are rejected with a
\* validation error instead of being executed: list_memories with limit
\* outside 1 .. 100 or offset < 0, search_memories with limit outside
\* 1 .. 50 or similarity_threshold outside 0 .. 1.
C25_OutOfRangeRejected ==
    /\ ( /\ res.op = "list_memories"
         /\ \/ Default(res.args, "limit", 20) \notin 1 .. 100
            \/ Default(res.args, "offset", 0) < 0 )
       => ValidationError
    /\ ( /\ res.op = "search_memories"
         /\ \/ Default(res.args, "limit", 5) \notin 1 .. 50
            \/ Default(res.args, "similarity_threshold", 50) \notin 0 .. 100 )
       => ValidationError

----------------------------------------------------------------------------
(* Failures of the database and of the embedding provider: every tool, on  *)
(* one project and one session, while failures come and go                 *)

NextOutage ==
    \/ \E what \in {"store", "provider"} : Outage(what)
    \/ Recover
    \/ RunMigration
    \/ Tick
    \/ store_memory([project_id |-> "p1", category |-> "decision",
                     content |-> "near"], 0)
    \/ search_memories([query |-> "q", project_id |-> "p1"])
    \/ list_memories([project_id |-> "p1"])
    \/ delete_memory(1, "p1")
    \/ get_project_stats("p1")
    \/ create_reaction(1, 1, "caused_by")
    \/ get_related_memories(1)
    \/ set_structured_memory([project_id |-> "p1", category |-> "project_conf",
                              key |-> "theme", value |-> "v1"])
    \/ get_structured_memory([project_id |-> "p1", category |-> "project_conf",
                              key |-> "theme"])
    \/ set_short_term_memory([session_id |-> "s1", key |-> "k", value |-> "v1",
                              ttl_seconds |-> 1])
    \/ get_short_term_memory([session_id |-> "s1", key |-> "k"])
    \/ get_short_term_memory_delete([session_id |-> "s1", key |-> "k"])
    \/ Return

SpecOutage == Init /\ [][NextOutage]_vars

\* the tools that ask the embedding provider for a vector
UsesProvider == {"store_memory", "search_memories"}

\* a reply is given in this step
Replies == res = NoReply /\ res' # NoReply

\* the component that is failing serves the call answered in this step
FailureHits ==
    \/ outage = "store"
    \/ outage = "provider" /\ res'.op \in UsesProvider

\* C26: a call served while the database or the embedding provider fails
\* is answered with a failure result (isError), and the step leaves every
\* table as it was; get_structured_memory and get_short_term_memory
\* included.
C26_FailuresReported ==
    [][ (Replies /\ FailureHits)
        => /\ res'.isError
           /\ UNCHANGED <<memories, memory_relations, structured_memories,
                          short_term_memory>> ]_vars

----------------------------------------------------------------------------
(* getEmbedding: the calls of concurrent tool handlers, interleaved at     *)
(* their awaits                                                            *)

\* everything but the model and its callers
not_embedding_vars ==
    <<memory_vars, key_value_vars, now, res, outage, env, config_file, config>>

\* a call enters getEmbedding and runs to its first await: the one on
\* pipeline() when generateEmbedding is null, the one on the model otherwise
getEmbedding_begin(c) ==
    /\ callers[c].pc = "idle"
    /\ IF generateEmbedding = NoModel
       THEN /\ pipeline_calls' = pipeline_calls + 1
            /\ callers' = [callers EXCEPT ![c] =
                  [pc |-> "loading", instance |-> pipeline_calls + 1,
                   used |-> NoModel]]
            /\ UNCHANGED generateEmbedding
       ELSE /\ callers' = [callers EXCEPT ![c] =
                  [pc |-> "embedding", instance |-> NoModel,
                   used |-> generateEmbedding]]
            /\ UNCHANGED <<generateEmbedding, pipeline_calls>>
    /\ UNCHANGED not_embedding_vars

\* the caller's pipeline() resolves: generateEmbedding is assigned and called
getEmbedding_loaded(c) ==
    /\ callers[c].pc = "loading"
    /\ generateEmbedding' = callers[c].instance
    /\ callers' = [callers EXCEPT ![c] =
          [pc |-> "embedding", instance |-> @.instance,
           used |-> callers[c].instance]]
    /\ UNCHANGED pipeline_calls
    /\ UNCHANGED not_embedding_vars

\* the model's output arrives and getEmbedding returns the vector
getEmbedding_return(c) ==
    /\ callers[c].pc = "embedding"
    /\ callers' = [callers EXCEPT ![c] = NotCalling]
    /\ UNCHANGED <<generateEmbedding, pipeline_calls>>
    /\ UNCHANGED not_embedding_vars

NextEmbedding ==
    \/ \E c \in Callers : getEmbedding_begin(c)
    \/ \E c \in Callers : getEmbedding_loaded(c)
    \/ \E c \in Callers : getEmbedding_return(c)

SpecEmbedding == Init /\ [][NextEmbedding]_vars

\* C27: however concurrent getEmbedding calls interleave, pipeline() is
\* called at most once in the life of the process, and every call that
\* has reached the model uses the instance of that one load.
C27_ModelLoadedOnce ==
    /\ pipeline_calls <= 1
    /\ \A c \in Callers : callers[c].used \in {NoModel, 1}

----------------------------------------------------------------------------
(* getConfig at startup, over every environment and config file            *)

\* the process before startup, in any environment, with any config file
InitConfig ==
    /\ memories = {}
    /\ memory_relations = {}
    /\ memories_columns = ApplySchema(Len(SchemaSql)).memories_columns
    /\ match_memories_def = ApplySchema(Len(SchemaSql)).match_memories
    /\ memories_indexes = ApplySchema(Len(SchemaSql)).memories_indexes
    /\ migration_result = "none"
    /\ nextId = 1
    /\ nextRelId = 1
    /\ now = 0
    /\ res = NoReply
    /\ KeyValueInit
    /\ outage = "none"
    /\ generateEmbedding = NoModel
    /\ pipeline_calls = 0
    /\ callers = [c \in Callers |-> NotCalling]
    /\ env \in Environments
    /\ config_file \in ConfigFiles
    /\ config = NotLoaded

\* index.ts: const config = getConfig()
Startup ==
    /\ config = NotLoaded
    /\ config' = getConfig(env, config_file)
    /\ UNCHANGED <<memory_vars, key_value_vars, now, res, outage,
                   generateEmbedding, pipeline_calls, callers, env,
                   config_file>>

NextConfig == Startup

SpecConfig == InitConfig /\ [][NextConfig]_vars

\* the value the config file holds for field f
FileValue(f) == IF config_file.exists THEN config_file[f] ELSE undefined

\* the value of field f by precedence: the one the environment defines,
\* the config file's otherwise
Expected(f) ==
    IF ~ Falsy(getConfigFromEnv(env)[f]) THEN getConfigFromEnv(env)[f]
    ELSE FileValue(f)

\* the same value, or no value on both sides
SameValue(v, w) == v = w \/ (Falsy(v) /\ Falsy(w))

\* no variable of the environment is set to the empty string
NoEmptyVariable == \A n \in EnvNames : env[n] # ""

\* C28: in a configuration returned by getConfig, each of projectUrl,
\* anonKey and serviceRoleKey has the value the environment defines for
\* it, and the config file's value when the environment defines none
\* (variables set to the empty string, which may or may not count as
\* defined, are left out).
C28_EnvironmentPrecedence ==
    (config \notin {NotLoaded, NoConfig} /\ NoEmptyVariable)
        => \A f \in ConfigFields : SameValue(config[f], Expected(f))

----------------------------------------------------------------------------
(* Lazy expiry against a concurrent set; relations across projects          *)

\* the step is the DELETE and the answer of a get_short_term_memory call
\* that had found its row expired
LazyDeleteStep == GetShortTermStep /\ in_flight' # in_flight

\* C29: a live value is not lost to lazy expiry.  The DELETE of a get that
\* had read an expired entry removes no row that is not expired: an entry
\* written by a set that returned in between is still there, and the next
\* get returns its value.
C29_LiveValueKept ==
    [][ LazyDeleteStep =>
          \A r \in short_term_memory :
             (ShortTermMatch(r, res'.args) /\ ~ Expired(r, now))
                => r \in short_term_memory' ]_vars

\* the projects of the stored memory with id `id`
ProjectsOf(id) == { m.project_id : m \in { x \in memories : x.id = id } }

\* C30: project isolation of the graph.  Every stored relation links two
\* memories of the same project, and a get_related_memories(M) reply
\* holds no memory of a project other than M's.
C30_RelationsWithinProject ==
    /\ \A r \in memory_relations :
          ProjectsOf(r.source_id) = ProjectsOf(r.target_id)
    /\ (res.op = "get_related_memories" /\ ~ res.isError) =>
          \A row \in DOMAIN res.data :
             ProjectsOf(row.memory_id) \subseteq ProjectsOf(res.args.memory_id)

----------------------------------------------------------------------------
(* Overwriting, key scoping and frames                                     *)

\* the last set on entry e gave no TTL (none, or a falsy one)
LastSetWithoutTtl(e) ==
    Has(last_set[e], "value") /\ ExpiresAt(last_set[e], last_set[e].at) = <<>>

\* C31: overwriting replaces the expiry with the value.  Once a set without
\* ttl_seconds has returned, whatever the entry held before (a value with
\* a TTL included), the entry holds the new value with expires_at = null
\* at every later time until the next set, so that a get returns it.
C31_OverwriteReplacesExpiry ==
    \A e \in GetShortTermInputs :
       LastSetWithoutTtl(e) =>
          \E r \in short_term_memory :
             /\ ShortTermMatch(r, e)
             /\ r.value = last_set[e].value
             /\ ~ Has(r, "expires_at")

\* the (project_id, category, key) triples of the scoping runs: one entry
\* and three that differ from it in one component each
ScopeTriples ==
    { <<"p1", "project_conf", "theme">>, <<"p2", "project_conf", "theme">>,
      <<"p1", "user_profile", "theme">>, <<"p1", "project_conf", "lang">> }

ScopeStructuredInputs ==
    { [project_id |-> t[1], category |-> t[2], key |-> t[3], value |-> "v1"] :
        t \in ScopeTriples }

\* the (session_id, key) pairs of the scoping runs: one entry, the same key
\* in another session, another key in the same session
ScopeEntries ==
    { [session_id |-> "s1", key |-> "k"], [session_id |-> "s2", key |-> "k"],
      [session_id |-> "s1", key |-> OtherShortTermKey] }

\* sets without a TTL and with one that has already run out when the row
\* is written
ScopeShortTermInputs ==
    { e @@ [value |-> "v1"] @@ t :
        e \in ScopeEntries, t \in Optional("ttl_seconds", {-1}) }

\* sets and gets on every entry
NextScope ==
    \/ \E a \in ScopeStructuredInputs : set_structured_memory(a)
    \/ \E t \in ScopeTriples :
          get_structured_memory([project_id |-> t[1], category |-> t[2],
                                 key |-> t[3]])
    \/ \E a \in ScopeShortTermInputs : set_short_term_memory(a)
    \/ \E e \in ScopeEntries : get_short_term_memory(e)
    \/ \E e \in ScopeEntries : get_short_term_memory_delete(e)
    \/ Return

SpecScope == Init /\ [][NextScope]_vars

\* the (project_id, category, key) of a structured row or call
TripleOf(a) == <<a.project_id, a.category, a.key>>

\* the rows of the structured table outside the triple of call a
OtherTriples(rows, a) == { r \in rows : TripleOf(r) # TripleOf(a) }

\* the rows of the short-term table outside the (session_id, key) of call a
OtherEntries(rows, a) == { r \in rows : EntryOf(r) # EntryOf(a) }

\* the step is a get_structured_memory call
GetStructuredStep == res = NoReply /\ res'.op = "get_structured_memory"

\* C32: key scoping.  A set_structured_memory on (p, c, k) leaves every
\* row of another triple, and the short-term table, as they were, and a
\* get_structured_memory on (p, c, k) answers with a value only from a row
\* of (p, c, k).  A set_short_term_memory or get_short_term_memory on
\* (s, k), its lazy DELETE included, leaves every row of another session or
\* key, and the structured table, as they were, and a get answers with a
\* value only from a row of (s, k).
C32_KeyScoping ==
    [][ /\ (SetStructuredStep \/ GetStructuredStep) =>
              /\ OtherTriples(structured_memories', res'.args)
                    = OtherTriples(structured_memories, res'.args)
              /\ short_term_memory' = short_term_memory
        /\ (GetStructuredStep /\ Has(res', "json")) =>
              \E r \in structured_memories :
                 /\ TripleOf(r) = TripleOf(res'.args)
                 /\ r.value = res'.json.value
        /\ (SetShortTermStep \/ GetShortTermStep) =>
              /\ OtherEntries(short_term_memory', res'.args)
                    = OtherEntries(short_term_memory, res'.args)
              /\ structured_memories' = structured_memories
        /\ (GetShortTermStep /\ Has(res', "json")) =>
              \E r \in short_term_memory :
                 /\ EntryOf(r) = EntryOf(res'.args)
                 /\ r.value = res'.json ]_vars

\* a lazy DELETE on one entry has just answered while the same key of
\* another session, another key of the same session and a structured entry
\* are stored
C32_Witness ==
    /\ res.op = "get_short_term_memory"
    /\ Has(res, "text") /\ res.text = "null (expired)"
    /\ \A r \in short_term_memory : EntryOf(r) # EntryOf(res.args)
    /\ \E r \in short_term_memory :
          r.session_id # res.args.session_id /\ r.key = res.args.key
    /\ \E r \in short_term_memory :
          r.session_id = res.args.session_id /\ r.key # res.args.key
    /\ structured_memories # {}

----------------------------------------------------------------------------
(* Every store filled, every tool: what a call leaves alone                *)

NextFrame ==
    \/ RunMigration
    \/ \E a \in GraphStoreInputs : store_memory(a, 0)
    \/ search_memories([query |-> "q", project_id |-> "p1"])
    \/ list_memories([project_id |-> "p1"])
    \/ get_project_stats("p1")
    \/ \E id \in {1, 2} : create_reaction(id, 1, "caused_by")
    \/ get_related_memories(1)
    \/ \E id \in {1, 2} : delete_memory(id, "p1")
    \/ set_structured_memory([project_id |-> "p1", category |-> "project_conf",
                              key |-> "theme", value |-> "v1"])
    \/ get_structured_memory([project_id |-> "p1", category |-> "project_conf",
                              key |-> "theme"])
    \/ \E t \in Optional("ttl_seconds", {-1}) :
          set_short_term_memory([session_id |-> "s1", key |-> "k",
                                 value |-> "v1"] @@ t)
    \/ get_short_term_memory([session_id |-> "s1", key |-> "k"])
    \/ get_short_term_memory_delete([session_id |-> "s1", key |-> "k"])
    \/ Return

SpecFrame == Init /\ [][NextFrame]_vars

\* the step is a delete_memory call
DeleteStep == res = NoReply /\ res'.op = "delete_memory"

\* C33: frame of delete_memory.  A delete_memory(M, p) that is not answered
\* with an error removes the memory M of project p and nothing else from
\* the memories, removes the relations that have M as source or target and
\* no other relation, and leaves the structured and the short-term entries
\* unchanged.
C33_DeleteFrame ==
    [][ (DeleteStep /\ ~ res'.isError) =>
          LET M == res'.args.memory_id
              gone == { m \in memories :
                          m.id = M /\ m.project_id = res'.args.project_id }
          IN /\ memories' = memories \ gone
             /\ memory_relations' =
                   { r \in memory_relations :
                       gone = {} \/ (r.source_id # M /\ r.target_id # M) }
             /\ UNCHANGED <<structured_memories, short_term_memory>> ]_vars

\* memory 2 and its relation to memory 1 have just been deleted; memory 1,
\* its relation to itself, a structured and a short-term entry are stored
C33_Witness ==
    /\ res.op = "delete_memory" /\ ~ res.isError
    /\ res.args.memory_id = 2
    /\ nextId > 2 /\ 2 \notin Ids(memories)
    /\ 1 \in Ids(memories)
    /\ nextRelId > 2
    /\ \E r \in memory_relations : r.source_id = 1 /\ r.target_id = 1
    /\ structured_memories # {}
    /\ short_term_memory # {}

\* the tools that only read
ReadTools ==
    {"search_memories", "list_memories", "get_project_stats",
     "get_related_memories", "get_structured_memory"}

\* the step is a call of a tool that only reads
ReadStep == res = NoReply /\ res'.op \in ReadTools

\* C34: reads are free of side effects but for lazy expiry.  A call of
\* search_memories, list_memories, get_project_stats, get_related_memories
\* or get_structured_memory changes no table; a get_short_term_memory
\* changes nothing but the short-term table, adds no row to it, and removes
\* only an expired row of the entry it read; and no step other than a set
\* or a get on its entry removes a short-term row, expired or not.
C34_ReadsChangeNothing ==
    [][ /\ ReadStep =>
              UNCHANGED <<memories, memory_relations, structured_memories,
                          short_term_memory>>
        /\ GetShortTermStep =>
              /\ UNCHANGED <<memories, memory_relations, structured_memories>>
              /\ short_term_memory' \subseteq short_term_memory
              /\ \A r \in short_term_memory \ short_term_memory' :
                    EntryOf(r) = EntryOf(res'.args) /\ Expired(r, now)
        /\ \A r \in short_term_memory \ short_term_memory' :
              /\ SetShortTermStep \/ GetShortTermStep
              /\ EntryOf(r) = EntryOf(res'.args) ]_vars

----------------------------------------------------------------------------
(* getConfig: when there is a configuration                                *)

\* the environment or the config file holds a value for field f
Available(f) ==
    ~ Falsy(getConfigFromEnv(env)[f]) \/ ~ Falsy(FileValue(f))

\* C35: getConfig returns a configuration exactly when projectUrl and
\* anonKey are each available from the environment or from the config
\* file, and null only when one of them is available from neither
\* (environments with a variable set to the empty string are left out).
C35_ConfigWhenAvailable ==
    (config # NotLoaded /\ NoEmptyVariable)
        => (config # NoConfig <=> (Available("projectUrl") /\ Available("anonKey")))

----------------------------------------------------------------------------
(* The schema after schema.sql, and the migration                          *)

\* table memories is as schema.sql left it: the migration has added nothing
SchemaOnly == memories_columns = ApplySchema(Len(SchemaSql)).memories_columns

\* the reply is that of a store_memory or search_memories call whose
\* arguments were valid, served while nothing was failing
ServedCall ==
    /\ res.op \in {"store_memory", "search_memories"}
    /\ ~ (Has(res, "text") /\ res.text = "validation")
    /\ outage = "none"

\* C36: on a database that schema.sql was applied to from start to end,
\* without the add_missing_columns migration, table memories has the
\* columns type and importance, and a store_memory insert and a
\* match_memories call succeed.
C36_SchemaHasColumns ==
    SchemaOnly =>
        /\ {"type", "importance"} \subseteq memories_columns
        /\ ServedCall => ~ res.isError

\* the two indexes of the migration
MigrationIndexes == {"idx_memories_type", "idx_memories_importance"}

\* the schemas the migration can meet: table memories with or without each
\* of type and importance, each column with or without its index
MigrationSchemas ==
    { db \in [memories_columns :
                 { BaseColumns \cup cs : cs \in SUBSET {"type", "importance"} },
              memories_indexes : SUBSET MigrationIndexes] :
        \A i \in DOMAIN MigrationSql :
           (MigrationSql[i].object = "index"
               /\ MigrationSql[i].name \in db.memories_indexes)
              => MigrationSql[i].column \in db.memories_columns }

\* a database whose table memories has any of these schemas
InitMigration ==
    /\ memories = {}
    /\ memory_relations = {}
    /\ \E db \in MigrationSchemas :
          /\ memories_columns = db.memories_columns
          /\ memories_indexes = db.memories_indexes
    /\ match_memories_def = ApplySchema(Len(SchemaSql)).match_memories
    /\ migration_result = "none"
    /\ nextId = 1
    /\ nextRelId = 1
    /\ now = 0
    /\ res = NoReply
    /\ KeyValueInit
    /\ outage = "none"
    /\ ProcessInit

\* the migration, run at any moment and any number of times, among stores
\* and listings
NextMigration ==
    \/ RunMigration
    \/ \E a \in GraphStoreInputs : store_memory(a, 0)
    \/ list_memories([project_id |-> "p1"])
    \/ Return

SpecMigration == InitMigration /\ [][NextMigration]_vars

\* C37: the migration is idempotent.  After any number of runs, from a
\* table with or without type, importance and their indexes, the table has
\* both columns and both indexes, and the last run has completed: it has
\* not failed on an object that exists.
C37_MigrationIdempotent ==
    migration_result # "none" =>
        /\ migration_result = "completed"
        /\ memories_columns = EnhancedColumns
        /\ memories_indexes = MigrationIndexes

\* the migration has run on a table that holds memories, and a store after
\* it has succeeded
C37_Witness ==
    /\ migration_result = "completed"
    /\ res.op = "store_memory" /\ ~ res.isError
    /\ Cardinality(memories) > 1
    /\ memories_indexes = MigrationIndexes

====
